---- MODULE Spec2Model ----
(***************************************************************************)
(* PDF lifecycle, chat-turn state machine, paged listings and accounts of  *)
(* the pdf-llm-chat backend.                                               *)
(*                                                                         *)
(* Every request is a coroutine: one step of the model is the code between *)
(* two awaits on a store.  The deferred tasks are awaited by the request   *)
(* that defers them (app/pdf/controller/dependencies.py:104-106 and        *)
(* app/chat/controllers/dependencies.py:201-206), so their steps continue   *)
(* the frame of that request.                                              *)
(***************************************************************************)
EXTENDS Integers, Sequences, FiniteSets, TLC

\* ------------------------------------------------------------------ bounds
MaxDocs  == 2      \* uploads accepted by the model
MaxTexts == 2      \* parsed-text records saved by the model
MaxTurns == 2      \* chat turns created by the model

\* two request slots and two users: enough for every race and for a
\* document of somebody else
Procs == {1, 2}
Users == {1, 2}

\* ----------------------------------------------------------- enumerations
UNPARSED       == "UNPARSED"
PARSING        == "PARSING"
PARSED_SUCCESS == "PARSED_SUCCESS"
PARSED_FAILURE == "PARSED_FAILURE"
PDFParseStatus == {UNPARSED, PARSING, PARSED_SUCCESS, PARSED_FAILURE}

PENDING                  == "PENDING"
PROCESSING               == "PROCESSING"
COMPLETED_SUCCESS        == "COMPLETED_SUCCESS"
FAILED_RETRIES_EXHAUSTED == "FAILED_RETRIES_EXHAUSTED"
LLMResponseStatus == {PENDING, PROCESSING, COMPLETED_SUCCESS, FAILED_RETRIES_EXHAUSTED}
Terminal == {COMPLETED_SUCCESS, FAILED_RETRIES_EXHAUSTED}

NoneStr == "None"

\* content types and filenames a client may send
ContentTypes == {"application/pdf", "application/PDF", "text/plain"}
\* the k-th upload carries the k-th name (None for a missing filename), so
\* that different documents have different names
Filenames    == <<"a.pdf", NoneStr, "c.pdf", "d.pdf">>

Range(s) == {s[i] : i \in DOMAIN s}

\* ---------------------------------------------------------------- exceptions
\* the exception classes whose __init__ takes the keyword argument they are
\* raised with; the other classes are bare subclasses of Exception
TakesKeyword == {"PDFNotParsedError", "PDFNotParsedForChatError"}

\* raise cls(keyword=value): a class without such an __init__ cannot be
\* constructed with a keyword, and the TypeError of the attempt is what
\* propagates
raise_with_keyword(cls) == IF cls \in TakesKeyword THEN cls ELSE "TypeError"

\* the repositories an application service can be composed with
PDFRepoImpls == {"MongoPDFRepository", "MockPDFRepository"}

VARIABLES
    pdf_meta_collection,      \* Seq of metadata documents, _id = index
    fs,                       \* number of blobs in the GridFS bucket, ids 1..fs
    parsed_texts_collection,  \* Seq of parsed-text documents, _id = index
    chat_logs,                \* Seq of chat_logs rows, id = index
    pdf_repo_impl,            \* the IPDFRepository behind the chat service
    users_table,              \* Seq of rows of the table "users", id = index
    procs,                    \* the frame of each request slot
    response                  \* the response sent by the step just taken

vars == <<pdf_meta_collection, fs, parsed_texts_collection, chat_logs,
          pdf_repo_impl, users_table, procs, response>>

\* ------------------------------------------------------------ PDF domain
\* PDFDocument.__init__ defaults; id 0 is "no document" (None).  Times are
\* ticks of a logical clock, 0 until the clock is read.
PDFDocument(id, user_id, gridfs_file_id, original_filename) ==
    [id |-> id, user_id |-> user_id, gridfs_file_id |-> gridfs_file_id,
     original_filename |-> original_filename, upload_date |-> 0,
     parse_status |-> UNPARSED, parse_error_message |-> NoneStr,
     is_selected_for_chat |-> FALSE, parsed_text_id |-> 0]

NoDoc == PDFDocument(0, 0, 0, NoneStr)

\* a mark_as_parsing that forgets the error of the last attempt
mark_as_parsing_keeps_error(d) == [d EXCEPT !.parse_status = PARSING]

mark_as_parsing(d) ==
    [d EXCEPT !.parse_status = PARSING, !.parse_error_message = NoneStr]

mark_parse_success(d, parsed_text_document_id) ==
    [d EXCEPT !.parse_status = PARSED_SUCCESS,
              !.parsed_text_id = parsed_text_document_id,
              !.parse_error_message = NoneStr]

mark_parse_failure(d, error_message) ==
    [d EXCEPT !.parse_status = PARSED_FAILURE,
              !.parse_error_message = error_message]

\* PDFDocument.select_for_chat: raises PDFNotParsedError unless PARSED_SUCCESS
select_for_chat_raises(d) == d.parse_status # PARSED_SUCCESS

\* ------------------------------------------------------- Mongo repository
\* a stored metadata document (the _id is the position in the collection)
MetaDoc(d) ==
    [user_id |-> d.user_id, gridfs_file_id |-> d.gridfs_file_id,
     original_filename |-> d.original_filename,
     upload_date |-> d.upload_date,
     parse_status |-> d.parse_status,
     parse_error_message |-> d.parse_error_message,
     is_selected_for_chat |-> d.is_selected_for_chat,
     parsed_text_id |-> d.parsed_text_id]

doc_to_domain(id, m) ==
    [id |-> id, user_id |-> m.user_id, gridfs_file_id |-> m.gridfs_file_id,
     original_filename |-> m.original_filename,
     upload_date |-> m.upload_date,
     parse_status |-> m.parse_status,
     parse_error_message |-> m.parse_error_message,
     is_selected_for_chat |-> m.is_selected_for_chat,
     parsed_text_id |-> m.parsed_text_id]

\* find_one({"_id": pdf_id}): the document of whoever owns it
get_pdf_meta_by_id_of_anyone(coll, pdf_id, user_id) ==
    IF pdf_id \in 1..Len(coll)
    THEN doc_to_domain(pdf_id, coll[pdf_id])
    ELSE NoDoc

\* find_one({"_id": pdf_id, "user_id": user_id}); an id that is no ObjectId
\* (0) or that names no document gives None
get_pdf_meta_by_id(coll, pdf_id, user_id) ==
    IF pdf_id \in 1..Len(coll) /\ coll[pdf_id].user_id = user_id
    THEN doc_to_domain(pdf_id, coll[pdf_id])
    ELSE NoDoc

\* update_one({"_id", "user_id"}, {"$set": ...}) of the whole copy
update_pdf_meta(coll, d) ==
    [i \in 1..Len(coll) |->
        IF i = d.id /\ coll[i].user_id = d.user_id
        THEN [coll[i] EXCEPT !.parse_status = d.parse_status,
                             !.parse_error_message = d.parse_error_message,
                             !.is_selected_for_chat = d.is_selected_for_chat,
                             !.parsed_text_id = d.parsed_text_id,
                             !.upload_date = d.upload_date]
        ELSE coll[i]]

\* an update_many whose filter matches no document
deselect_nothing(coll, user_id, pdf_id_to_select) == coll

\* first write of set_pdf_selected_for_chat: update_many deselecting the others
deselect_others(coll, user_id, pdf_id_to_select) ==
    [i \in 1..Len(coll) |->
        IF coll[i].user_id = user_id /\ coll[i].is_selected_for_chat
           /\ i # pdf_id_to_select
        THEN [coll[i] EXCEPT !.is_selected_for_chat = FALSE]
        ELSE coll[i]]

\* second write of set_pdf_selected_for_chat: update_one selecting the target
select_target(coll, user_id, pdf_id_to_select) ==
    [i \in 1..Len(coll) |->
        IF i = pdf_id_to_select /\ coll[i].user_id = user_id
        THEN [coll[i] EXCEPT !.is_selected_for_chat = TRUE]
        ELSE coll[i]]

\* matched_count > 0 of that update_one
select_matched(coll, user_id, pdf_id_to_select) ==
    pdf_id_to_select \in 1..Len(coll) /\ coll[pdf_id_to_select].user_id = user_id

\* ------------------------------------------------------------ chat domain
\* ChatMessageTurn.__init__ defaults; id 0 is "no identifier" (None)
ChatMessageTurn(user_id, pdf_document_id, pdf_original_filename) ==
    [id |-> 0, user_id |-> user_id, pdf_document_id |-> pdf_document_id,
     pdf_original_filename |-> pdf_original_filename,
     user_message_timestamp |-> 0,
     llm_response_content |-> NoneStr, llm_response_status |-> PENDING,
     llm_response_timestamp |-> FALSE, retry_attempts |-> 0]

NoTurn == ChatMessageTurn(0, 0, NoneStr)

\* ------------------------------------------------------- chat repository
\* a row that records the first document of the store, whatever the turn says
ChatLogDB_of_first_document(t) ==
    [user_id |-> t.user_id, pdf_document_id |-> 1,
     pdf_original_filename |-> t.pdf_original_filename,
     user_message_timestamp |-> t.user_message_timestamp,
     llm_response_content |-> NoneStr, llm_response_status |-> PENDING,
     llm_response_timestamp |-> FALSE, retry_attempts |-> 0]

\* the row create_chat_turn inserts: the status is PENDING whatever the turn says
ChatLogDB(t) ==
    [user_id |-> t.user_id, pdf_document_id |-> t.pdf_document_id,
     pdf_original_filename |-> t.pdf_original_filename,
     user_message_timestamp |-> t.user_message_timestamp,
     llm_response_content |-> NoneStr, llm_response_status |-> PENDING,
     llm_response_timestamp |-> FALSE, retry_attempts |-> 0]

\* get_chat_turn_by_id without the owner in the where clause
get_chat_turn_by_id_of_anyone(logs, turn_id, user_id) ==
    IF turn_id \in 1..Len(logs)
    THEN [id |-> turn_id, user_id |-> logs[turn_id].user_id,
          pdf_document_id |-> logs[turn_id].pdf_document_id,
          pdf_original_filename |-> logs[turn_id].pdf_original_filename,
          user_message_timestamp |-> logs[turn_id].user_message_timestamp,
          llm_response_content |-> logs[turn_id].llm_response_content,
          llm_response_status |-> logs[turn_id].llm_response_status,
          llm_response_timestamp |-> logs[turn_id].llm_response_timestamp,
          retry_attempts |-> logs[turn_id].retry_attempts]
    ELSE NoTurn

\* select ... where id = turn_id and user_id = user_id
get_chat_turn_by_id(logs, turn_id, user_id) ==
    IF turn_id \in 1..Len(logs) /\ logs[turn_id].user_id = user_id
    THEN [id |-> turn_id, user_id |-> logs[turn_id].user_id,
          pdf_document_id |-> logs[turn_id].pdf_document_id,
          pdf_original_filename |-> logs[turn_id].pdf_original_filename,
          user_message_timestamp |-> logs[turn_id].user_message_timestamp,
          llm_response_content |-> logs[turn_id].llm_response_content,
          llm_response_status |-> logs[turn_id].llm_response_status,
          llm_response_timestamp |-> logs[turn_id].llm_response_timestamp,
          retry_attempts |-> logs[turn_id].retry_attempts]
    ELSE NoTurn

update_llm_response_in_turn(logs, t) ==
    [i \in 1..Len(logs) |->
        IF i = t.id /\ logs[i].user_id = t.user_id
        THEN [logs[i] EXCEPT !.llm_response_content = t.llm_response_content,
                             !.llm_response_status = t.llm_response_status,
                             !.llm_response_timestamp = t.llm_response_timestamp,
                             !.retry_attempts = t.retry_attempts]
        ELSE logs[i]]

\* find_one({"pdf_metadata_id": ...}): the text of the first record of the
\* document, None when there is none
get_parsed_text_by_pdf_meta_id(texts, pdf_meta_id) ==
    LET hits == {i \in 1..Len(texts) : texts[i].pdf_metadata_id = pdf_meta_id} IN
    IF hits = {} THEN NoneStr
    ELSE texts[CHOOSE i \in hits : \A j \in hits : i <= j].text_content

\* IPDFRepository.get_selected_pdf_for_user: the body of the Protocol is "...",
\* so the call returns None.  MongoPDFRepository subclasses the Protocol and
\* does not define the method: this body is the one it runs
IPDFRepository_get_selected_pdf_for_user(coll, user_id) == NoDoc

\* MockPDFRepository.get_selected_pdf_for_user of the chat service tests: the
\* first document of the user that is selected
MockPDFRepository_get_selected_pdf_for_user(coll, user_id) ==
    LET hits == {i \in 1..Len(coll) :
                    coll[i].user_id = user_id /\ coll[i].is_selected_for_chat} IN
    IF hits = {} THEN NoDoc
    ELSE LET first == CHOOSE i \in hits : \A j \in hits : i <= j IN
         doc_to_domain(first, coll[first])

\* self.pdf_repo.get_selected_pdf_for_user(user_id) on the repository the
\* service was composed with
get_selected_pdf_for_user(impl, coll, user_id) ==
    IF impl = "MongoPDFRepository"
    THEN IPDFRepository_get_selected_pdf_for_user(coll, user_id)
    ELSE MockPDFRepository_get_selected_pdf_for_user(coll, user_id)

\* --------------------------------------------------------- account domain
\* An e-mail address is a sequence of letters, of which "A" is the only
\* upper-case one; MaxEmailLen is the length of the addresses tried.
MaxEmailLen == 2

\* the most rows the table "users" gets
MaxUsers == 2

Letters == {"A", "a", "b"}

Emails == [1..MaxEmailLen -> Letters]

Passwords == {"password1", "password2"}

\* str.lower()
lower(email) ==
    [i \in DOMAIN email |-> IF email[i] = "A" THEN "a" ELSE email[i]]

\* pwd_context.hash(password): the bcrypt hash, its salt left out
hash_password(password) == [bcrypt |-> password]

\* pwd_context.verify(plain_password, self.hashed_password)
verify_password(user, plain_password) ==
    user.hashed_password = hash_password(plain_password)

\* User.__init__: the e-mail is lower-cased; id 0 is "no user" (None)
User(id, user_uuid, email, hashed_password, is_active) ==
    [id |-> id, user_uuid |-> user_uuid, email |-> lower(email),
     hashed_password |-> hashed_password, is_active |-> is_active]

NoUser == User(0, 0, <<>>, NoneStr, FALSE)

\* User.create_new; the uuid4 it draws is the number of the row the user
\* will get, which no other user has
create_new(email, plain_password) ==
    User(0, 0, email, hash_password(plain_password), TRUE)

\* ------------------------------------------------------- user repository
\* UserDB.from_domain
UserDB(user) ==
    [user_uuid |-> user.user_uuid, email |-> user.email,
     hashed_password |-> user.hashed_password, is_active |-> user.is_active]

\* UserDB.to_domain of row id
to_domain(table, id) ==
    User(id, table[id].user_uuid, table[id].email,
         table[id].hashed_password, table[id].is_active)

\* select ... where email = lower(:email), scalar_one_or_none
get_by_email(table, email) ==
    IF \E i \in 1..Len(table) : table[i].email = lower(email)
    THEN to_domain(table, CHOOSE i \in 1..Len(table) :
                              table[i].email = lower(email))
    ELSE NoUser

\* a table "users" without the unique index on the e-mail
email_without_index(table, user) == user.email = lower(user.email)

\* the unique index on users.email lets the insert of this user through
email_is_unique(table, user) ==
    \A i \in 1..Len(table) : table[i].email # user.email

\* ----------------------------------------------------------------- frames
\* the locals of a request coroutine; deferred is the argument list of the
\* deferred task, resp_status the status the response will carry, modified
\* the modified_count of the update_many of a selection, content_type the
\* one of the uploaded file
IdleFrame ==
    [pc |-> "idle", op |-> NoneStr, user_id |-> 0, pdf_id |-> 0,
     doc |-> NoDoc, turn |-> NoTurn, text |-> NoneStr, deferred |-> <<>>,
     resp_status |-> NoneStr, modified |-> 0, content_type |-> NoneStr,
     email |-> <<>>, password |-> NoneStr, user |-> NoUser, token |-> 0,
     cause |-> NoneStr]

Active(p) == procs[p].pc # "idle"

\* slot p takes the next request: it is free and no lower slot is
Free(p) ==
    /\ procs[p].pc = "idle"
    /\ \A q \in Procs : q < p => procs[q].pc # "idle"

\* what a client receives: the outcome (OK or the exception raised) and the
\* fields of the frame the response is built from
\* task_end says how the awaited task ended, when one was deferred
Response(f, result, task_end) ==
    [op |-> f.op, user_id |-> f.user_id, pdf_id |-> f.pdf_id,
     result |-> result, deferred |-> f.deferred,
     resp_status |-> f.resp_status, modified |-> f.modified,
     content_type |-> f.content_type, task_end |-> task_end,
     email |-> f.email, password |-> f.password, user |-> f.user,
     token |-> f.token, cause |-> f.cause]

NoResponse == Response(IdleFrame, NoneStr, NoneStr)

\* frame f ends with this result: the slot is free again
RespondTask(p, f, result, task_end) ==
    /\ procs' = [procs EXCEPT ![p] = IdleFrame]
    /\ response' = Response(f, result, task_end)

Respond(p, f, result) == RespondTask(p, f, result, NoneStr)

\* frame f goes on
Continue(p, f) ==
    /\ procs' = [procs EXCEPT ![p] = f]
    /\ response' = NoResponse

Init ==
    /\ pdf_meta_collection = <<>>
    /\ fs = 0
    /\ parsed_texts_collection = <<>>
    /\ chat_logs = <<>>
    /\ pdf_repo_impl = "MongoPDFRepository"
    /\ users_table = <<>>
    /\ procs = [p \in Procs |-> IdleFrame]
    /\ response = NoResponse

\* ----------------------------------------------------------------- upload
\* an upload_pdf that goes on to the metadata although no blob was stored
upload_pdf_without_blob(p, u, content_type, filename) ==
    /\ Free(p)
    /\ fs < MaxDocs
    /\ filename = Filenames[fs + 1]
    /\ u = 1 \/ fs > 0
    /\ fs' = fs
    /\ LET f == [IdleFrame EXCEPT !.op = "upload", !.user_id = u,
                                  !.content_type = content_type] IN
       IF content_type # "application/pdf"
       THEN Respond(p, f, raise_with_keyword("InvalidPDFFileTypeError"))
       ELSE Continue(p, [f EXCEPT !.pc = "save_pdf_meta",
                           !.doc = PDFDocument(0, u, fs + 1,
                               IF filename = NoneStr THEN "untitled.pdf"
                               ELSE filename)])
    /\ UNCHANGED <<users_table, pdf_meta_collection, parsed_texts_collection, chat_logs,
                   pdf_repo_impl>>

\* upload_pdf up to the await of save_pdf_binary
upload_pdf(p, u, content_type, filename) ==
    /\ Free(p)
    /\ fs < MaxDocs
    /\ filename = Filenames[fs + 1]
    /\ u = 1 \/ fs > 0
    /\ LET f == [IdleFrame EXCEPT !.op = "upload", !.user_id = u,
                                  !.content_type = content_type] IN
       IF content_type # "application/pdf"
       THEN /\ Respond(p, f, raise_with_keyword("InvalidPDFFileTypeError"))
            /\ fs' = fs
       ELSE /\ fs' = fs + 1
            /\ Continue(p, [f EXCEPT !.pc = "save_pdf_meta",
                              !.doc = PDFDocument(0, u, fs + 1,
                                  IF filename = NoneStr THEN "untitled.pdf"
                                  ELSE filename)])
    /\ UNCHANGED <<users_table, pdf_meta_collection, parsed_texts_collection, chat_logs,
                   pdf_repo_impl>>

\* PDFDocument(..., upload_date=now), then save_pdf_meta: insert_one, the
\* generated id goes into the domain object
save_pdf_meta(p) ==
    /\ procs[p].pc = "save_pdf_meta"
    /\ pdf_meta_collection' = Append(pdf_meta_collection,
           MetaDoc([procs[p].doc EXCEPT
                       !.upload_date = Len(pdf_meta_collection) + 1]))
    /\ Respond(p, [procs[p] EXCEPT !.pdf_id = Len(pdf_meta_collection) + 1], "OK")
    /\ UNCHANGED <<users_table, fs, parsed_texts_collection, chat_logs, pdf_repo_impl>>

\* ---------------------------------------------------------- select_for_chat
\* select_pdf_for_chat up to the first write of set_pdf_selected_for_chat
select_pdf_for_chat(p, u, pdf_id) ==
    /\ Free(p)
    /\ LET f == [IdleFrame EXCEPT !.op = "select", !.user_id = u, !.pdf_id = pdf_id]
           d == get_pdf_meta_by_id(pdf_meta_collection, pdf_id, u) IN
       IF d.id = 0 THEN Respond(p, f, raise_with_keyword("PDFNotFoundError"))
       ELSE IF select_for_chat_raises(d) THEN Respond(p, f, raise_with_keyword("PDFNotParsedError"))
       ELSE Continue(p, [f EXCEPT !.pc = "deselect_others"])
    /\ UNCHANGED <<users_table, pdf_meta_collection, fs, parsed_texts_collection, chat_logs,
                   pdf_repo_impl>>

set_selected_deselect_others(p) ==
    /\ procs[p].pc = "deselect_others"
    /\ pdf_meta_collection' =
         deselect_others(pdf_meta_collection, procs[p].user_id, procs[p].pdf_id)
    /\ Continue(p, [procs[p] EXCEPT !.pc = "select_target",
           !.modified = Cardinality({i \in 1..Len(pdf_meta_collection) :
               pdf_meta_collection'[i] # pdf_meta_collection[i]})])
    /\ UNCHANGED <<users_table, fs, parsed_texts_collection, chat_logs, pdf_repo_impl>>

set_selected_select_target(p) ==
    /\ procs[p].pc = "select_target"
    /\ pdf_meta_collection' =
         select_target(pdf_meta_collection, procs[p].user_id, procs[p].pdf_id)
    /\ IF select_matched(pdf_meta_collection, procs[p].user_id, procs[p].pdf_id)
       THEN Respond(p, procs[p], "OK")
       ELSE Respond(p, procs[p], "PDFDomainError")
    /\ UNCHANGED <<users_table, fs, parsed_texts_collection, chat_logs, pdf_repo_impl>>

\* ---------------------------------------------------------- request_parsing
\* requests that are inside the parse task or about to defer it
ParsesInFlight ==
    Cardinality({q \in Procs : procs[q].op = "parse" /\ Active(q)})

\* request_pdf_parsing up to the await of update_pdf_meta
request_pdf_parsing(p, u, pdf_id) ==
    /\ Free(p)
    /\ LET f == [IdleFrame EXCEPT !.op = "parse", !.user_id = u, !.pdf_id = pdf_id]
           d == get_pdf_meta_by_id(pdf_meta_collection, pdf_id, u) IN
       IF d.id = 0
       THEN Respond(p, f, raise_with_keyword("PDFNotFoundError"))
       ELSE IF d.parse_status = PARSING \/ d.parse_status = PARSED_SUCCESS
       THEN Respond(p, f, raise_with_keyword("PDFAlreadyParsingError"))
       ELSE /\ Len(parsed_texts_collection) + ParsesInFlight < MaxTexts
            /\ Continue(p, [f EXCEPT !.pc = "update_parsing",
                              !.doc = mark_as_parsing(d)])
    /\ UNCHANGED <<users_table, pdf_meta_collection, fs, parsed_texts_collection, chat_logs,
                   pdf_repo_impl>>

\* update_pdf_meta(pdf_doc), then defer_parse_task(pdf_doc.id, current_user_id)
request_pdf_parsing_update(p) ==
    /\ procs[p].pc = "update_parsing"
    /\ pdf_meta_collection' = update_pdf_meta(pdf_meta_collection, procs[p].doc)
    /\ Continue(p, [procs[p] EXCEPT !.pc = "parse_task",
                      !.resp_status = procs[p].doc.parse_status,
                      !.deferred = <<procs[p].doc.id, procs[p].user_id>>,
                      !.doc = NoDoc])
    /\ UNCHANGED <<users_table, fs, parsed_texts_collection, chat_logs, pdf_repo_impl>>

\* ------------------------------------------------------------- parse task
\* what opening the blob and reading the pages gives
ExtractOutcomes == {"no_binary", "reader_error", "text", "no_text"}

\* dummy_defer_parse_task from get_pdf_meta_by_id to the text being extracted
parse_task_get(p, raises, outcome) ==
    /\ procs[p].pc = "parse_task"
    /\ LET t == procs[p].deferred
           d == get_pdf_meta_by_id(pdf_meta_collection, t[1], t[2]) IN
       IF raises \/ d.id = 0 THEN Respond(p, procs[p], "OK")
       ELSE IF outcome = "no_binary"
       THEN Continue(p, [procs[p] EXCEPT !.pc = "parse_task_update",
                !.doc = mark_parse_failure(d, "PDF binary not found")])
       ELSE IF outcome = "reader_error"
       THEN Continue(p, [procs[p] EXCEPT !.pc = "parse_task_handler",
                !.doc = mark_parse_failure(d, "Error during PDF parsing task")])
       ELSE Continue(p, [procs[p] EXCEPT !.pc = "save_parsed_text", !.doc = d,
                !.text = IF outcome = "text" THEN "text" ELSE ""])
    /\ UNCHANGED <<users_table, pdf_meta_collection, fs, parsed_texts_collection, chat_logs,
                   pdf_repo_impl>>

\* save_parsed_text, then mark_parse_success; an exception goes to the handler
parse_task_save_text(p, raises) ==
    /\ procs[p].pc = "save_parsed_text"
    /\ IF raises
       THEN /\ parsed_texts_collection' = parsed_texts_collection
            /\ Continue(p, [procs[p] EXCEPT !.pc = "parse_task_handler",
                  !.text = NoneStr,
                  !.doc = mark_parse_failure(procs[p].doc,
                              "Error during PDF parsing task")])
       ELSE /\ parsed_texts_collection' = Append(parsed_texts_collection,
                 [pdf_metadata_id |-> procs[p].doc.id,
                  text_content |-> procs[p].text])
            /\ Continue(p, [procs[p] EXCEPT !.pc = "parse_task_update",
                  !.text = NoneStr,
                  !.doc = mark_parse_success(procs[p].doc,
                              Len(parsed_texts_collection) + 1)])
    /\ UNCHANGED <<users_table, pdf_meta_collection, fs, chat_logs, pdf_repo_impl>>

\* update_pdf_meta inside the try block (after mark_parse_success, or after
\* mark_parse_failure for a missing binary)
parse_task_update(p, raises) ==
    /\ procs[p].pc = "parse_task_update"
    /\ IF raises
       THEN /\ pdf_meta_collection' = pdf_meta_collection
            /\ Continue(p, [procs[p] EXCEPT !.pc = "parse_task_handler",
                  !.doc = mark_parse_failure(procs[p].doc,
                              "Error during PDF parsing task")])
       ELSE /\ pdf_meta_collection' =
                 update_pdf_meta(pdf_meta_collection, procs[p].doc)
            /\ Respond(p, procs[p], "OK")
    /\ UNCHANGED <<users_table, fs, parsed_texts_collection, chat_logs, pdf_repo_impl>>

\* except Exception: update_pdf_meta after mark_parse_failure, a second
\* exception is logged and dropped
parse_task_handler(p, raises) ==
    /\ procs[p].pc = "parse_task_handler"
    /\ pdf_meta_collection' =
         IF raises THEN pdf_meta_collection
         ELSE update_pdf_meta(pdf_meta_collection, procs[p].doc)
    /\ Respond(p, procs[p], "OK")
    /\ UNCHANGED <<users_table, fs, parsed_texts_collection, chat_logs, pdf_repo_impl>>

\* ------------------------------------------------------------ submit_message
SubmitsInFlight ==
    Cardinality({q \in Procs : procs[q].op = "submit" /\ Active(q)})

\* submit_user_message up to the await of create_chat_turn
submit_user_message(p, u) ==
    /\ Free(p)
    /\ LET f == [IdleFrame EXCEPT !.op = "submit", !.user_id = u]
           sel == get_selected_pdf_for_user(pdf_repo_impl, pdf_meta_collection, u) IN
       IF sel.id = 0
       THEN Respond(p, f, "NoPDFSelectedForChatError")
       ELSE IF sel.parse_status # PARSED_SUCCESS
       THEN Respond(p, [f EXCEPT !.pdf_id = sel.id],
                    raise_with_keyword("PDFNotParsedForChatError"))
       ELSE /\ Len(chat_logs) + SubmitsInFlight < MaxTurns
            /\ Continue(p, [f EXCEPT !.pc = "create_chat_turn", !.pdf_id = sel.id,
                 !.turn = [ChatMessageTurn(u, sel.id, sel.original_filename)
                     EXCEPT !.user_message_timestamp =
                                Len(chat_logs) + SubmitsInFlight + 1]])
    /\ UNCHANGED <<users_table, pdf_meta_collection, fs, parsed_texts_collection, chat_logs,
                   pdf_repo_impl>>

\* a create_chat_turn that defers the task without looking at the identifier
create_chat_turn_defers_anyway(p, yields_id) ==
    /\ procs[p].pc = "create_chat_turn"
    /\ chat_logs' = IF yields_id THEN Append(chat_logs, ChatLogDB(procs[p].turn))
                    ELSE chat_logs
    /\ Continue(p, [procs[p] EXCEPT !.pc = "llm_task", !.turn = NoTurn,
         !.resp_status = PENDING,
         !.deferred = <<IF yields_id THEN Len(chat_logs) + 1 ELSE 0,
                        procs[p].user_id>>])
    /\ UNCHANGED <<users_table, pdf_meta_collection, fs, parsed_texts_collection,
                   pdf_repo_impl>>

\* create_chat_turn, the check of the identifier, then defer_llm_task.  A
\* repository that hands back no identifier is the one of
\* test_submit_user_message_repo_create_fails, which stores nothing
create_chat_turn(p, yields_id) ==
    /\ procs[p].pc = "create_chat_turn"
    /\ IF yields_id
       THEN /\ chat_logs' = Append(chat_logs, ChatLogDB(procs[p].turn))
            /\ Continue(p, [procs[p] EXCEPT !.pc = "llm_task", !.turn = NoTurn,
                 !.resp_status = PENDING,
                 !.deferred = <<Len(chat_logs) + 1, procs[p].user_id>>])
       ELSE /\ chat_logs' = chat_logs
            /\ Respond(p, procs[p], "ChatDomainError")
    /\ UNCHANGED <<users_table, pdf_meta_collection, fs, parsed_texts_collection,
                   pdf_repo_impl>>

\* --------------------------------------------------------------- LLM task
\* what the curl subprocess and the parsing of its output give
CurlOutcomes ==
    {"generated_text", "transport_failure", "non_2xx", "malformed_body",
     "api_error", "no_text_in_body", "subprocess_raises"}

\* _defer_llm_task: get_chat_turn_by_id.  An exception here reaches the
\* outermost handler with chat_turn still None, which records nothing
llm_task_get(p, raises) ==
    /\ procs[p].pc = "llm_task"
    /\ LET t == get_chat_turn_by_id(chat_logs, procs[p].deferred[1],
                                    procs[p].deferred[2]) IN
       IF raises THEN RespondTask(p, procs[p], "OK", "turn_read_raised")
       ELSE IF t.id = 0 THEN RespondTask(p, procs[p], "OK", "turn_not_found")
       ELSE Continue(p, [procs[p] EXCEPT !.pc = "llm_text", !.turn = t])
    /\ UNCHANGED <<users_table, pdf_meta_collection, fs, parsed_texts_collection, chat_logs,
                   pdf_repo_impl>>

\* the message the outermost handler of the LLM task stores: it ends with
\* str(e), and e is the AttributeError of LLMResponseStatus.FAILED for every
\* failure the task tells apart, the exception of the store otherwise
unexpected_error_message(cause) ==
    IF cause = "store_raised"
    THEN "LLM Error: An unexpected error occurred during LLM task: store error"
    ELSE "LLM Error: An unexpected error occurred during LLM task: FAILED"

\* get_parsed_text_by_pdf_meta_id, then the call of the API.  Every failure
\* branch assigns LLMResponseStatus.FAILED, which the enumeration does not
\* have: the AttributeError leaves the turn as it is and reaches the
\* outermost handler, as any other exception does; cause is the failure that
\* occurred
llm_task_call(p, raises, outcome) ==
    /\ procs[p].pc = "llm_text"
    /\ LET text == get_parsed_text_by_pdf_meta_id(parsed_texts_collection,
                       procs[p].turn.pdf_document_id) IN
       IF raises
       THEN Continue(p, [procs[p] EXCEPT !.pc = "llm_handler",
                                         !.cause = "store_raised"])
       ELSE IF text = NoneStr \/ text = ""
       THEN Continue(p, [procs[p] EXCEPT !.pc = "llm_handler",
                                         !.cause = "missing_parsed_text"])
       ELSE IF outcome # "generated_text"
       THEN Continue(p, [procs[p] EXCEPT !.pc = "llm_handler",
                                         !.cause = outcome])
       ELSE Continue(p, [procs[p] EXCEPT !.pc = "llm_update",
                !.turn = [procs[p].turn EXCEPT
                            !.llm_response_content = "generated_text",
                            !.llm_response_status = COMPLETED_SUCCESS,
                            !.llm_response_timestamp = TRUE]])
    /\ UNCHANGED <<users_table, pdf_meta_collection, fs, parsed_texts_collection, chat_logs,
                   pdf_repo_impl>>

\* how update_llm_response_in_turn ends: its select or its commit raises,
\* the refresh after the commit raises, or it returns
UpdateOutcomes == {"commit_raises", "refresh_raises", "returns"}

\* update_llm_response_in_turn of the generated text
llm_task_update(p, outcome) ==
    /\ procs[p].pc = "llm_update"
    /\ chat_logs' = IF outcome = "commit_raises" THEN chat_logs
                    ELSE update_llm_response_in_turn(chat_logs, procs[p].turn)
    /\ IF outcome = "returns"
       THEN RespondTask(p, procs[p], "OK", "written")
       ELSE Continue(p, [procs[p] EXCEPT !.pc = "llm_handler",
                                         !.cause = "store_raised"])
    /\ UNCHANGED <<users_table, pdf_meta_collection, fs, parsed_texts_collection,
                   pdf_repo_impl>>

\* the outermost except: FAILED_RETRIES_EXHAUSTED and the message of the
\* unexpected error are written; an exception of this write leaves the task
\* and the request
llm_task_handler(p, raises) ==
    /\ procs[p].pc = "llm_handler"
    /\ IF raises
       THEN /\ chat_logs' = chat_logs
            /\ RespondTask(p, procs[p], "Exception", "write_raised")
       ELSE /\ chat_logs' = update_llm_response_in_turn(chat_logs,
                 [procs[p].turn EXCEPT
                     !.llm_response_status = FAILED_RETRIES_EXHAUSTED,
                     !.llm_response_content =
                         unexpected_error_message(procs[p].cause)])
            /\ RespondTask(p, procs[p], "OK", "written")
    /\ UNCHANGED <<users_table, pdf_meta_collection, fs, parsed_texts_collection,
                   pdf_repo_impl>>

\* ---------------------------------------------------------- specifications
\* The PDF service as the application wires it, from empty stores: uploads,
\* parse requests with their parse tasks and selections, overlapping freely.
Next ==
    \E p \in Procs :
        \/ \E u \in Users, ct \in ContentTypes, fn \in Range(Filenames) :
               upload_pdf(p, u, ct, fn)
        \/ save_pdf_meta(p)
        \/ \E u \in Users, d \in 0..MaxDocs : select_pdf_for_chat(p, u, d)
        \/ set_selected_deselect_others(p)
        \/ set_selected_select_target(p)
        \/ \E u \in Users, d \in 0..MaxDocs : request_pdf_parsing(p, u, d)
        \/ request_pdf_parsing_update(p)
        \/ \E r \in BOOLEAN, o \in ExtractOutcomes : parse_task_get(p, r, o)
        \/ \E r \in BOOLEAN : parse_task_save_text(p, r)
        \/ \E r \in BOOLEAN : parse_task_update(p, r)
        \/ \E r \in BOOLEAN : parse_task_handler(p, r)

Spec == Init /\ [][Next]_vars

\* no request of user u is in flight
NoRequestOf(u) == \A q \in Procs : Active(q) => procs[q].user_id # u

\* The same service when the requests of one user do not overlap each other
\* (those of different users still do).
SerialNext ==
    \E p \in Procs :
        \/ \E u \in Users, ct \in ContentTypes, fn \in Range(Filenames) :
               NoRequestOf(u) /\ upload_pdf(p, u, ct, fn)
        \/ save_pdf_meta(p)
        \/ \E u \in Users, d \in 0..MaxDocs :
               NoRequestOf(u) /\ select_pdf_for_chat(p, u, d)
        \/ set_selected_deselect_others(p)
        \/ set_selected_select_target(p)
        \/ \E u \in Users, d \in 0..MaxDocs :
               NoRequestOf(u) /\ request_pdf_parsing(p, u, d)
        \/ request_pdf_parsing_update(p)
        \/ \E r \in BOOLEAN, o \in ExtractOutcomes : parse_task_get(p, r, o)
        \/ \E r \in BOOLEAN : parse_task_save_text(p, r)
        \/ \E r \in BOOLEAN : parse_task_update(p, r)
        \/ \E r \in BOOLEAN : parse_task_handler(p, r)

SerialSpec == Init /\ [][SerialNext]_vars

\* Document stores that Spec reaches (SeedAReached, SeedBReached), from which
\* the chat service is explored.
\* Seed A: user 1 has parsed both documents, the second has no text, and
\* has selected the first.
SeedADocs ==
    << [MetaDoc(PDFDocument(1, 1, 1, "a.pdf")) EXCEPT !.upload_date = 1,
            !.parse_status = PARSED_SUCCESS, !.parsed_text_id = 1,
            !.is_selected_for_chat = TRUE],
       [MetaDoc(PDFDocument(2, 1, 2, "untitled.pdf")) EXCEPT !.upload_date = 2,
            !.parse_status = PARSED_SUCCESS, !.parsed_text_id = 2] >>

SeedATexts ==
    << [pdf_metadata_id |-> 1, text_content |-> "text"],
       [pdf_metadata_id |-> 2, text_content |-> ""] >>

\* Seed B: the document of user 1 was selected while a second parse request
\* put it back to PARSING; user 2 has a parsed document and no selection.
SeedBDocs ==
    << [MetaDoc(PDFDocument(1, 1, 1, "a.pdf")) EXCEPT !.upload_date = 1,
            !.parse_status = PARSING, !.is_selected_for_chat = TRUE],
       [MetaDoc(PDFDocument(2, 2, 2, "untitled.pdf")) EXCEPT !.upload_date = 2,
            !.parse_status = PARSED_SUCCESS, !.parsed_text_id = 2] >>

SeedBTexts ==
    << [pdf_metadata_id |-> 1, text_content |-> "text"],
       [pdf_metadata_id |-> 2, text_content |-> "text"] >>

Quiet == \A p \in Procs : ~Active(p)

SeedAReached ==
    Quiet /\ pdf_meta_collection = SeedADocs /\ parsed_texts_collection = SeedATexts

SeedBReached ==
    Quiet /\ pdf_meta_collection = SeedBDocs /\ parsed_texts_collection = SeedBTexts

ChatInit ==
    /\ \/ pdf_meta_collection = SeedADocs /\ parsed_texts_collection = SeedATexts
       \/ pdf_meta_collection = SeedBDocs /\ parsed_texts_collection = SeedBTexts
    /\ fs = Len(pdf_meta_collection)
    /\ chat_logs = <<>>
    /\ pdf_repo_impl \in PDFRepoImpls
    /\ users_table = <<>>
    /\ procs = [p \in Procs |-> IdleFrame]
    /\ response = NoResponse

\* The chat service with either repository behind it: submissions with their
\* LLM tasks and selections, overlapping freely.
ChatNext ==
    \E p \in Procs :
        \/ \E u \in Users, d \in 0..MaxDocs : select_pdf_for_chat(p, u, d)
        \/ set_selected_deselect_others(p)
        \/ set_selected_select_target(p)
        \/ \E u \in Users : submit_user_message(p, u)
        \/ \E y \in BOOLEAN : create_chat_turn(p, y)
        \/ \E r \in BOOLEAN : llm_task_get(p, r)
        \/ \E r \in BOOLEAN, o \in CurlOutcomes : llm_task_call(p, r, o)
        \/ \E o \in UpdateOutcomes : llm_task_update(p, o)
        \/ \E r \in BOOLEAN : llm_task_handler(p, r)

ChatSpec == ChatInit /\ [][ChatNext]_vars

\* ------------------------------------------------------------------ claims
\* the documents of user u that are selected for chat
Selected(u) ==
    {i \in 1..Len(pdf_meta_collection) :
        /\ pdf_meta_collection[i].user_id = u
        /\ pdf_meta_collection[i].is_selected_for_chat}

Owned(u, d) ==
    d \in 1..Len(pdf_meta_collection) /\ pdf_meta_collection[d].user_id = u

\* C1: in every reachable state, whatever requests interleave, every user
\* has at most one document selected for chat.
C1_AtMostOneSelected == \A u \in Users : Cardinality(Selected(u)) <= 1

\* C2: when the requests of one user do not overlap, a successful
\* select_for_chat leaves the document it names selected and every other
\* document of that user deselected.
C2_SelectLeavesOnlyTarget ==
    (response.op = "select" /\ response.result = "OK")
        => Selected(response.user_id) = {response.pdf_id}

\* a selection that took the flag away from the document selected before
C2_SelectedBAfterA ==
    /\ response.op = "select" /\ response.result = "OK"
    /\ response.modified = 1
    /\ Selected(response.user_id) = {response.pdf_id}

\* C3: in every reachable state of the document store a document that is
\* selected for chat has parse status PARSED_SUCCESS.
C3_SelectedImpliesParsed ==
    \A i \in 1..Len(pdf_meta_collection) :
        pdf_meta_collection[i].is_selected_for_chat
            => pdf_meta_collection[i].parse_status = PARSED_SUCCESS

\* C4: no step takes the stored status of a chat turn from PENDING straight
\* to COMPLETED_SUCCESS or FAILED_RETRIES_EXHAUSTED: PROCESSING is stored
\* in between.
C4_ProcessingBetween ==
    [][\A i \in 1..Len(chat_logs) :
          chat_logs[i].llm_response_status = PENDING
              => chat_logs'[i].llm_response_status \notin Terminal]_vars

\* C5: when the LLM task deferred for a chat turn has ended, whatever step
\* of it failed, the stored status of the turn is COMPLETED_SUCCESS or
\* FAILED_RETRIES_EXHAUSTED.
C5_TaskLeavesTurnTerminal ==
    (response.op = "submit" /\ response.deferred # <<>>)
        => chat_logs[response.deferred[1]].llm_response_status \in Terminal

\* a submit_message that was turned down, and the one that goes on
SubmitRejected ==
    /\ response'.op = "submit"
    /\ response'.result \in {"NoPDFSelectedForChatError", "PDFNotParsedForChatError"}

SubmitAccepted(p) == procs[p].pc = "idle" /\ procs'[p].pc = "create_chat_turn"

AllParsed(S) ==
    \A i \in S : pdf_meta_collection[i].parse_status = PARSED_SUCCESS

\* C6: submit_message goes on to create a turn only for a user with a
\* selected PARSED_SUCCESS document; with no selected document it fails with
\* NoPDFSelectedForChat, with a selected document that is not parsed with
\* PDFNotParsedForChat, and a failed call stores no turn and defers no task.
C6_SubmitGuards ==
    [][/\ SubmitRejected =>
            /\ UNCHANGED <<pdf_meta_collection, parsed_texts_collection,
                           chat_logs, procs>>
            /\ response'.deferred = <<>>
            /\ Selected(response'.user_id) = {}
                   => response'.result = "NoPDFSelectedForChatError"
            /\ (/\ Selected(response'.user_id) # {}
                /\ \A i \in Selected(response'.user_id) :
                      pdf_meta_collection[i].parse_status # PARSED_SUCCESS)
                   => response'.result = "PDFNotParsedForChatError"
       /\ \A p \in Procs : SubmitAccepted(p) =>
            /\ \E i \in Selected(procs'[p].user_id) :
                  pdf_meta_collection[i].parse_status = PARSED_SUCCESS
            /\ UNCHANGED chat_logs
            /\ procs'[p].deferred = <<>>]_vars

\* C7: a submit_message of a user whose selected document is PARSED_SUCCESS
\* is not turned down; it stores exactly one new turn, PENDING, without a
\* response, with the id and the filename of the selected document, defers
\* one task with (turn_id, user_id) only then, and reports PENDING.
C7_SubmitPersistsAndDefers ==
    [][/\ SubmitRejected =>
            ~(/\ Selected(response'.user_id) # {}
              /\ AllParsed(Selected(response'.user_id)))
       /\ \A p \in Procs :
            (procs[p].pc = "create_chat_turn" /\ chat_logs' # chat_logs) =>
                /\ Len(chat_logs') = Len(chat_logs) + 1
                /\ \A i \in 1..Len(chat_logs) : chat_logs'[i] = chat_logs[i]
                /\ LET row == chat_logs'[Len(chat_logs')]
                       sel == procs[p].pdf_id IN
                   /\ row.llm_response_status = PENDING
                   /\ row.llm_response_content = NoneStr
                   /\ row.user_id = procs[p].user_id
                   /\ row.pdf_document_id = sel
                   /\ row.pdf_original_filename =
                          pdf_meta_collection[sel].original_filename
                /\ procs[p].deferred = <<>>
                /\ procs'[p].deferred = <<Len(chat_logs'), procs[p].user_id>>
                /\ procs'[p].resp_status = PENDING
       /\ (response'.op = "submit" /\ response'.deferred # <<>>) =>
              response'.resp_status = PENDING]_vars

\* C8: when create_chat_turn hands back no identifier, the call fails with
\* ChatDomainError and no LLM task is deferred for it.
C8_NoIdentifierNoTask ==
    [][\A p \in Procs :
          (/\ procs[p].pc = "create_chat_turn"
           /\ procs'[p] # procs[p]
           /\ chat_logs' = chat_logs) =>
              /\ procs'[p] = IdleFrame
              /\ response'.op = "submit"
              /\ response'.result = "ChatDomainError"
              /\ response'.deferred = <<>>
              /\ response'.task_end = NoneStr]_vars

\* a submission that ended with ChatDomainError
C8_CreateFailed ==
    /\ response.op = "submit" /\ response.result = "ChatDomainError"
    /\ response.deferred = <<>>
    /\ chat_logs = <<>>

\* a request_parsing that was turned down
ParseRejected ==
    /\ response'.op = "parse"
    /\ response'.result # "OK"

\* C9: request_parsing fails with PDFNotFound exactly for a document that is
\* unknown or somebody else's and with PDFAlreadyParsing exactly for an own
\* document in PARSING or PARSED_SUCCESS; a failed call changes no store and
\* defers nothing, and a call goes on only for an own document in UNPARSED
\* or PARSED_FAILURE.
C9_RejectedParseChangesNothing ==
    [][/\ ParseRejected =>
            LET u == response'.user_id
                d == response'.pdf_id IN
            /\ UNCHANGED <<pdf_meta_collection, fs, parsed_texts_collection,
                           chat_logs, procs>>
            /\ response'.deferred = <<>>
            /\ response'.result = "PDFNotFoundError" <=> ~Owned(u, d)
            /\ response'.result = "PDFAlreadyParsingError" <=>
                   /\ Owned(u, d)
                   /\ pdf_meta_collection[d].parse_status
                          \in {PARSING, PARSED_SUCCESS}
       /\ \A p \in Procs :
            (procs[p].pc = "idle" /\ procs'[p].op = "parse") =>
                /\ Owned(procs'[p].user_id, procs'[p].pdf_id)
                /\ pdf_meta_collection[procs'[p].pdf_id].parse_status
                       \in {UNPARSED, PARSED_FAILURE}
                /\ UNCHANGED <<pdf_meta_collection, fs, parsed_texts_collection,
                               chat_logs>>
                /\ procs'[p].deferred = <<>>]_vars

SelectRejected ==
    /\ response'.op = "select"
    /\ response'.result \notin {"OK", "PDFDomainError"}

\* C11: select_for_chat fails with PDFNotFound exactly for a document that
\* is unknown or somebody else's and with PDFNotParsed exactly for an own
\* document in UNPARSED, PARSING or PARSED_FAILURE; a failed call writes
\* nothing, and a call goes on to the selection writes only for an own
\* document in PARSED_SUCCESS.
C11_RejectedSelectWritesNothing ==
    [][/\ SelectRejected =>
            LET u == response'.user_id
                d == response'.pdf_id IN
            /\ UNCHANGED <<pdf_meta_collection, fs, parsed_texts_collection,
                           chat_logs, procs>>
            /\ response'.result = "PDFNotFoundError" <=> ~Owned(u, d)
            /\ response'.result = "PDFNotParsedError" <=>
                   /\ Owned(u, d)
                   /\ pdf_meta_collection[d].parse_status
                          \in {UNPARSED, PARSING, PARSED_FAILURE}
       /\ \A p \in Procs :
            (procs[p].pc = "idle" /\ procs'[p].op = "select") =>
                /\ Owned(procs'[p].user_id, procs'[p].pdf_id)
                /\ pdf_meta_collection[procs'[p].pdf_id].parse_status
                       = PARSED_SUCCESS
                /\ UNCHANGED pdf_meta_collection]_vars

AllowedParseSteps ==
    {<<UNPARSED, PARSING>>, <<PARSED_FAILURE, PARSING>>,
     <<PARSING, PARSED_SUCCESS>>, <<PARSING, PARSED_FAILURE>>}

\* C13: every change of the stored parse status of a document is one of
\* UNPARSED -> PARSING, PARSED_FAILURE -> PARSING, PARSING -> PARSED_SUCCESS
\* and PARSING -> PARSED_FAILURE; a document in PARSED_SUCCESS stays there.
C13_ParseStatusLifecycle ==
    [][\A i \in 1..Len(pdf_meta_collection) :
          \/ pdf_meta_collection'[i].parse_status
                 = pdf_meta_collection[i].parse_status
          \/ <<pdf_meta_collection[i].parse_status,
               pdf_meta_collection'[i].parse_status>> \in AllowedParseSteps]_vars

\* C14: when the parse task deferred for a document has ended, whatever step
\* of it raised, the document is stored as PARSED_SUCCESS with the reference
\* of a text record saved for it, or as PARSED_FAILURE with an error message;
\* it is not left in PARSING.
C14_ParseTaskLeavesDocumentParsed ==
    (response.op = "parse" /\ response.deferred # <<>>) =>
        LET d == pdf_meta_collection[response.deferred[1]] IN
        \/ /\ d.parse_status = PARSED_SUCCESS
           /\ d.parsed_text_id \in 1..Len(parsed_texts_collection)
           /\ parsed_texts_collection[d.parsed_text_id].pdf_metadata_id
                  = response.deferred[1]
        \/ /\ d.parse_status = PARSED_FAILURE
           /\ d.parse_error_message # NoneStr

\* C15: an upload is turned down with InvalidPDFFileType exactly when its
\* content type is not "application/pdf", and then no blob and no metadata
\* record is written.
C15_WrongTypeStoresNothing ==
    [][/\ (response'.op = "upload" /\ response'.result # "OK") =>
              /\ response'.result = "InvalidPDFFileTypeError"
              /\ response'.content_type # "application/pdf"
              /\ UNCHANGED <<pdf_meta_collection, fs, parsed_texts_collection,
                             chat_logs, procs>>
       /\ \A p \in Procs :
            (procs[p].pc = "idle" /\ procs'[p].op = "upload") =>
                procs'[p].content_type = "application/pdf"]_vars

\* C16: the step of an upload that stores the blob writes no metadata, and
\* the step that writes the metadata appends exactly one record: UNPARSED,
\* not selected, without error message and text reference, owned by the
\* uploader, referring to the blob this upload stored before, which no other
\* record refers to.
C16_UploadPersistsFreshDocument ==
    [][\A p \in Procs :
          /\ (procs[p].pc = "idle" /\ procs'[p].pc = "save_pdf_meta") =>
                /\ fs' = fs + 1
                /\ procs'[p].doc.gridfs_file_id = fs'
                /\ UNCHANGED pdf_meta_collection
          /\ (procs[p].pc = "save_pdf_meta" /\ procs'[p] # procs[p]) =>
                /\ Len(pdf_meta_collection') = Len(pdf_meta_collection) + 1
                /\ \A i \in 1..Len(pdf_meta_collection) :
                      /\ pdf_meta_collection'[i] = pdf_meta_collection[i]
                      /\ pdf_meta_collection[i].gridfs_file_id
                             # procs[p].doc.gridfs_file_id
                /\ LET new == pdf_meta_collection'[Len(pdf_meta_collection')] IN
                   /\ new.parse_status = UNPARSED
                   /\ new.is_selected_for_chat = FALSE
                   /\ new.parse_error_message = NoneStr
                   /\ new.parsed_text_id = 0
                   /\ new.user_id = procs[p].user_id
                   /\ new.gridfs_file_id = procs[p].doc.gridfs_file_id
                   /\ new.gridfs_file_id \in 1..fs
                /\ fs' = fs
                /\ response'.op = "upload" /\ response'.result = "OK"
                /\ response'.pdf_id = Len(pdf_meta_collection')]_vars

\* the second upload has ended while the first document is already parsed
\* and selected: the new record of user 2 is fresh
C16_SecondUploadDone ==
    /\ response.op = "upload" /\ response.result = "OK"
    /\ response.pdf_id = 2 /\ response.user_id = 2
    /\ pdf_meta_collection[1].is_selected_for_chat
    /\ pdf_meta_collection[2].parse_status = UNPARSED
    /\ ~pdf_meta_collection[2].is_selected_for_chat
    /\ pdf_meta_collection[2].gridfs_file_id = 2

\* ------------------------------------------------------------ paged listings
\* the most items a user's list holds, the last page and the largest page
\* size asked for
MaxItems == 25
MaxPage == 4
MaxSize == 10

\* a skip that counts pages from zero
page_skip_from_zero(page, size) == page * size

\* skip = (page - 1) * size
page_skip(page, size) == (page - 1) * size

\* total_pages = (total_items + size - 1) // size if total_items > 0 else 0
total_pages(total_items, size) ==
    IF total_items > 0 THEN (total_items + size - 1) \div size ELSE 0

\* the identifiers ids with the largest key first and, among equal keys, the
\* largest identifier first
RECURSIVE order_by_desc(_, _)
order_by_desc(ids, key) ==
    IF ids = {} THEN <<>>
    ELSE LET first == CHOOSE i \in ids : \A j \in ids :
                          key[j] < key[i] \/ (key[j] = key[i] /\ j <= i)
         IN  <<first>> \o order_by_desc(ids \ {first}, key)

\* the same identifiers, smallest key first
RECURSIVE order_by_asc(_, _)
order_by_asc(ids, key) ==
    IF ids = {} THEN <<>>
    ELSE LET first == CHOOSE i \in ids : \A j \in ids :
                          key[i] < key[j] \/ (key[j] = key[i] /\ i <= j)
         IN  <<first>> \o order_by_asc(ids \ {first}, key)

\* cursor.skip(skip).limit(limit), stmt.offset(skip).limit(limit), limit >= 1
skip_limit(rows, skip, limit) ==
    SubSeq(rows, skip + 1,
           IF skip + limit < Len(rows) THEN skip + limit ELSE Len(rows))

\* a listing of the documents that comes oldest first
get_all_pdf_meta_for_user_oldest_first(coll, user_id, skip, limit) ==
    LET ids == {i \in 1..Len(coll) : coll[i].user_id = user_id}
    IN  skip_limit(order_by_asc(ids, [i \in ids |-> coll[i].upload_date]),
                   skip, limit)

\* find({"user_id": user_id}).sort("upload_date", -1).skip(skip).limit(limit),
\* as the identifiers of the documents found.  Mongo leaves the order of equal
\* upload dates open; the stores modelled hold no two equal ones.
get_all_pdf_meta_for_user(coll, user_id, skip, limit) ==
    LET ids == {i \in 1..Len(coll) : coll[i].user_id = user_id}
    IN  skip_limit(order_by_desc(ids, [i \in ids |-> coll[i].upload_date]),
                   skip, limit)

\* count_documents({"user_id": user_id})
count_all_pdf_meta_for_user(coll, user_id) ==
    Cardinality({i \in 1..Len(coll) : coll[i].user_id = user_id})

\* select ... where user_id = :user_id
\* order by user_message_timestamp desc, id desc offset :skip limit :limit
get_chat_history_for_user(logs, user_id, skip, limit) ==
    LET ids == {i \in 1..Len(logs) : logs[i].user_id = user_id}
    IN  skip_limit(order_by_desc(ids,
                       [i \in ids |-> logs[i].user_message_timestamp]),
                   skip, limit)

\* select count(id) ... where user_id = :user_id
count_chat_history_for_user(logs, user_id) ==
    Cardinality({i \in 1..Len(logs) : logs[i].user_id = user_id})

\* PDFApplicationService.list_pdfs_for_user: PaginatedPDFListResponse
list_pdfs_for_user(coll, user_id, page, size) ==
    LET skip == page_skip(page, size)
        pdf_docs == get_all_pdf_meta_for_user(coll, user_id, skip, size)
        total_items == count_all_pdf_meta_for_user(coll, user_id)
    IN  [op |-> "list_pdfs_for_user", user_id |-> user_id,
         total_items |-> total_items,
         total_pages |-> total_pages(total_items, size),
         current_page |-> page, page_size |-> size, data |-> pdf_docs]

\* ChatApplicationService.get_chat_history: PaginatedChatHistoryResponse
get_chat_history(logs, user_id, page, size) ==
    LET skip == page_skip(page, size)
        chat_turns == get_chat_history_for_user(logs, user_id, skip, size)
        total_items == count_chat_history_for_user(logs, user_id)
    IN  [op |-> "get_chat_history", user_id |-> user_id,
         total_items |-> total_items,
         total_pages |-> total_pages(total_items, size),
         current_page |-> page, page_size |-> size, data |-> chat_turns]

\* GET /pdf-list
pdf_list(u, page, size) ==
    /\ response' = list_pdfs_for_user(pdf_meta_collection, u, page, size)
    /\ UNCHANGED <<users_table, pdf_meta_collection, fs, parsed_texts_collection, chat_logs,
                   pdf_repo_impl, procs>>

\* GET /chat-history
get_user_chat_history(u, page, size) ==
    /\ response' = get_chat_history(chat_logs, u, page, size)
    /\ UNCHANGED <<users_table, pdf_meta_collection, fs, parsed_texts_collection, chat_logs,
                   pdf_repo_impl, procs>>

\* The stores the listings are read from: n uploads and n chat turns, the
\* clock ticking once per insert.  Every item belongs to user 1 (owners 1),
\* or every second (owners 2) or every third (owners 3) to user 2.  The first
\* document of a user is parsed and selected, and the turns of the user are
\* about it.
PageOwners == {1, 2, 3}

PageOwner(k, i) ==
    IF (k = 2 /\ i % 2 = 0) \/ (k = 3 /\ i % 3 = 0) THEN 2 ELSE 1

PageFirst(k, u) == IF u = 1 THEN 1 ELSE k

PageDocs(n, k) ==
    [i \in 1..n |->
        IF i = PageFirst(k, PageOwner(k, i))
        THEN [MetaDoc(PDFDocument(i, PageOwner(k, i), i, "a.pdf")) EXCEPT
                 !.upload_date = i, !.parse_status = PARSED_SUCCESS,
                 !.parsed_text_id = i, !.is_selected_for_chat = TRUE]
        ELSE [MetaDoc(PDFDocument(i, PageOwner(k, i), i, "a.pdf")) EXCEPT
                 !.upload_date = i]]

PageTexts(n, k) ==
    IF n = 0 THEN <<>>
    ELSE IF k = 1 \/ n < k THEN << [pdf_metadata_id |-> 1, text_content |-> "text"] >>
    ELSE << [pdf_metadata_id |-> 1, text_content |-> "text"],
            [pdf_metadata_id |-> k, text_content |-> "text"] >>

PageLogs(n, k) ==
    [i \in 1..n |->
        [ChatLogDB([ChatMessageTurn(PageOwner(k, i),
                        PageFirst(k, PageOwner(k, i)), "a.pdf")
                    EXCEPT !.user_message_timestamp = i])
         EXCEPT !.llm_response_content = "answer",
                !.llm_response_status = COMPLETED_SUCCESS,
                !.llm_response_timestamp = TRUE]]

PageInit ==
    /\ \E n \in 0..MaxItems, k \in PageOwners :
          /\ pdf_meta_collection = PageDocs(n, k)
          /\ parsed_texts_collection = PageTexts(n, k)
          /\ chat_logs = PageLogs(n, k)
    /\ fs = Len(pdf_meta_collection)
    /\ pdf_repo_impl = "MongoPDFRepository"
    /\ users_table = <<>>
    /\ procs = [p \in Procs |-> IdleFrame]
    /\ response = NoResponse

\* A listing writes to no store, so a listing that follows another one ends
\* in the state it ends in when it is the first: the listings are taken from
\* the initial states alone.
PageNext ==
    /\ response = NoResponse
    /\ \E u \in Users, page \in 1..MaxPage, size \in 1..MaxSize :
          \/ pdf_list(u, page, size)
          \/ get_user_chat_history(u, page, size)

PageSpec == PageInit /\ [][PageNext]_vars

\* the items of user u in the store the response was read from, by identifier
PageItems(r) ==
    IF r.op = "list_pdfs_for_user"
    THEN {i \in 1..Len(pdf_meta_collection) :
             pdf_meta_collection[i].user_id = r.user_id}
    ELSE {i \in 1..Len(chat_logs) : chat_logs[i].user_id = r.user_id}

\* the time item i of that store was inserted with
PageTime(r, i) ==
    IF r.op = "list_pdfs_for_user" THEN pdf_meta_collection[i].upload_date
    ELSE chat_logs[i].user_message_timestamp

\* the position of item i in the user's list, newest first, counted from 0
PagePosition(r, i) ==
    Cardinality({j \in PageItems(r) : PageTime(r, j) > PageTime(r, i)})

Paged == response.op \in {"list_pdfs_for_user", "get_chat_history"}

\* C17: a page of list_pdfs_for_user or get_chat_history with page >= 1 and
\* size >= 1 over the N items of the user reports total_items = N and
\* total_pages = ceil(N / size), 0 when N = 0, whatever page is asked for,
\* and holds exactly the items at positions (page-1)*size ..
\* (page-1)*size + size - 1 of the user's list, in that order; N = 25 and
\* size = 10 give 10, 10, 5 and 0 items on pages 1 to 4 and 3 pages in total.
C17_PageArithmetic ==
    Paged =>
        LET r == response
            N == Cardinality(PageItems(r))
            lo == (r.current_page - 1) * r.page_size
        IN  /\ r.total_items = N
            /\ IF N = 0 THEN r.total_pages = 0
               ELSE /\ r.total_pages * r.page_size >= N
                    /\ (r.total_pages - 1) * r.page_size < N
            /\ \A k \in 1..Len(r.data) :
                  r.data[k] \in PageItems(r) /\ PagePosition(r, r.data[k]) = lo + k - 1
            /\ Len(r.data) =
                  Cardinality({i \in PageItems(r) :
                      PagePosition(r, i) \in lo..(lo + r.page_size - 1)})
            /\ (N = 25 /\ r.page_size = 10) =>
                  /\ r.total_pages = 3
                  /\ Len(r.data) = IF r.current_page \in {1, 2} THEN 10
                                   ELSE IF r.current_page = 3 THEN 5 ELSE 0

\* the third page of 25 items by 10 holds the 5 oldest
C17_LastPageOfTwentyFive ==
    /\ Paged
    /\ response.total_items = 25 /\ response.page_size = 10
    /\ response.current_page = 3 /\ Len(response.data) = 5

\* page p, of the size of response r, of the listing r was taken from
PageData(r, p) ==
    IF r.op = "list_pdfs_for_user"
    THEN list_pdfs_for_user(pdf_meta_collection, r.user_id, p, r.page_size).data
    ELSE get_chat_history(chat_logs, r.user_id, p, r.page_size).data

\* pages 1..p of that listing, one after the other
RECURSIVE PagesUpTo(_, _)
PagesUpTo(r, p) ==
    IF p = 0 THEN <<>> ELSE PagesUpTo(r, p - 1) \o PageData(r, p)

\* the items of the sequence are in strictly decreasing order of their time
NewestFirst(r, items) ==
    \A k \in 1..(Len(items) - 1) :
        PageTime(r, items[k]) > PageTime(r, items[k + 1])

login_user_tells_inactive(table, email, password) ==
    LET user_domain_obj == get_by_email(table, email) IN
    IF user_domain_obj.id # 0 /\ ~user_domain_obj.is_active
    THEN [result |-> "InactiveUserError", token |-> 0, resp_status |-> "500"]
    ELSE IF user_domain_obj.id = 0 \/ ~verify_password(user_domain_obj, password)
    THEN [result |-> "InvalidCredentialsError", token |-> 0,
          resp_status |-> "401"]
    ELSE [result |-> "OK", token |-> user_domain_obj.user_uuid,
          resp_status |-> "200"]

\* AccountApplicationService.login_user behind POST /login: the token is
\* the "sub" it carries
login_user(table, email, password) ==
    LET user_domain_obj == get_by_email(table, email) IN
    IF user_domain_obj.id = 0 \/ ~verify_password(user_domain_obj, password)
    THEN [result |-> "InvalidCredentialsError", token |-> 0,
          resp_status |-> "401"]
    ELSE IF ~user_domain_obj.is_active
    THEN [result |-> "InvalidCredentialsError", token |-> 0,
          resp_status |-> "401"]
    ELSE [result |-> "OK", token |-> user_domain_obj.user_uuid,
          resp_status |-> "200"]

\* POST /login
login_for_access_token_endpoint(p, email, password) ==
    /\ Free(p)
    /\ LET r == login_user(users_table, email, password) IN
       Respond(p, [IdleFrame EXCEPT !.op = "login", !.email = email,
                       !.password = password, !.token = r.token,
                       !.resp_status = r.resp_status], r.result)
    /\ UNCHANGED <<pdf_meta_collection, fs, parsed_texts_collection, chat_logs,
                   pdf_repo_impl, users_table>>

RegistersInFlight == Cardinality({q \in Procs : procs[q].op = "register"})

\* POST /register, register_user up to the await of user_repo.add
register_user(p, email, password) ==
    /\ Free(p)
    /\ Len(users_table) + RegistersInFlight < MaxUsers
    /\ LET f == [IdleFrame EXCEPT !.op = "register", !.email = email,
                                  !.password = password]
           existing_user == get_by_email(users_table, email) IN
       IF existing_user.id # 0
       THEN Respond(p, [f EXCEPT !.resp_status = "409"], "UserAlreadyExistsError")
       ELSE Continue(p, [f EXCEPT !.pc = "user_repo_add",
                           !.user = create_new(email, password)])
    /\ UNCHANGED <<pdf_meta_collection, fs, parsed_texts_collection, chat_logs,
                   pdf_repo_impl, users_table>>

\* user_repo.add: the insert is committed, or refused by the unique index on
\* the e-mail, which the route answers as any other exception
user_repo_add(p) ==
    /\ procs[p].pc = "user_repo_add"
    /\ IF email_is_unique(users_table, procs[p].user)
       THEN LET id == Len(users_table) + 1 IN
            /\ users_table' = Append(users_table,
                   UserDB([procs[p].user EXCEPT !.user_uuid = id]))
            /\ Respond(p, [procs[p] EXCEPT !.resp_status = "201",
                   !.user = [procs[p].user EXCEPT !.id = id, !.user_uuid = id]],
                   "OK")
       ELSE /\ users_table' = users_table
            /\ Respond(p, [procs[p] EXCEPT !.resp_status = "500"],
                       "IntegrityError")
    /\ UNCHANGED <<pdf_meta_collection, fs, parsed_texts_collection, chat_logs,
                   pdf_repo_impl>>

\* The table "users" at the start: empty, or with one user that was stored
\* with is_active = False.
InactiveUser ==
    UserDB(User(1, 1, [i \in 1..MaxEmailLen |-> "b"],
                hash_password("password1"), FALSE))

AccountInit ==
    /\ pdf_meta_collection = <<>>
    /\ fs = 0
    /\ parsed_texts_collection = <<>>
    /\ chat_logs = <<>>
    /\ pdf_repo_impl = "MongoPDFRepository"
    /\ users_table \in {<<>>, <<InactiveUser>>}
    /\ procs = [p \in Procs |-> IdleFrame]
    /\ response = NoResponse

\* The account service: registrations and logins, overlapping freely.
AccountNext ==
    \E p \in Procs :
        \/ \E email \in Emails, password \in Passwords :
               register_user(p, email, password)
        \/ user_repo_add(p)
        \/ \E email \in Emails, password \in Passwords :
               login_for_access_token_endpoint(p, email, password)

AccountSpec == AccountInit /\ [][AccountNext]_vars

\* the two addresses differ in the case of letters at most
SameIgnoringCase(e1, e2) ==
    /\ Len(e1) = Len(e2)
    /\ \A i \in 1..Len(e1) : e1[i] = e2[i] \/ {e1[i], e2[i]} = {"A", "a"}

\* C19: a register whose e-mail equals, letter case ignored, the e-mail of a
\* stored user ends with UserAlreadyExists and writes nothing to the store;
\* a register whose e-mail is not present yet stores exactly one new user,
\* active, under the lower-cased e-mail.
C19_RegisterOncePerEmail ==
    [][response'.op = "register" =>
          IF \E i \in 1..Len(users_table) :
                 SameIgnoringCase(users_table[i].email, response'.email)
          THEN /\ response'.result = "UserAlreadyExistsError"
               /\ users_table' = users_table
          ELSE /\ response'.result = "OK"
               /\ Len(users_table') = Len(users_table) + 1
               /\ SubSeq(users_table', 1, Len(users_table)) = users_table
               /\ LET row == users_table'[Len(users_table')] IN
                     /\ row.is_active
                     /\ SameIgnoringCase(row.email, response'.email)
                     /\ \A i \in 1..Len(row.email) : row.email[i] # "A"]_vars

\* the rows of the table whose e-mail is the one of response r, case ignored
RowsOf(table, r) ==
    {i \in 1..Len(table) : SameIgnoringCase(table[i].email, r.email)}

\* C20: a login with an unknown e-mail, with a wrong password, or with the
\* right password of an inactive user ends in one and the same outcome:
\* InvalidCredentials, answered 401, no token issued and nothing written to
\* the store; so the outcome for an inactive user is the same whether the
\* password given is right or wrong.
C20_LoginRefusalsAlike ==
    [][response'.op = "login" =>
          LET rows == RowsOf(users_table, response')
              right == \E i \in rows : users_table[i].hashed_password =
                                           [bcrypt |-> response'.password]
              inactive == \E i \in rows : ~users_table[i].is_active
          IN  (rows = {} \/ ~right \/ inactive) =>
                  /\ response'.result = "InvalidCredentialsError"
                  /\ response'.resp_status = "401"
                  /\ response'.token = 0
                  /\ users_table' = users_table]_vars

\* an inactive user was refused although the password was the right one
C20_InactiveRefusedWithRightPassword ==
    /\ response.op = "login" /\ response.result = "InvalidCredentialsError"
    /\ \E i \in RowsOf(users_table, response) :
          /\ ~users_table[i].is_active
          /\ users_table[i].hashed_password = [bcrypt |-> response.password]

\* ------------------------------------------------------------ HTTP boundary
\* POST /pdf-parse: the status the route answers a result of the service with
pdf_parse_status_code(result) ==
    IF result = "OK" THEN 202
    ELSE IF result = "PDFNotFoundError" THEN 404
    ELSE 500

\* POST /pdf-select: the status the route answers a result of the service with
pdf_select_status_code(result) ==
    IF result = "OK" THEN 200
    ELSE IF result = "PDFNotParsedError" THEN 409
    ELSE IF result = "PDFNotFoundError" THEN 404
    ELSE 500

\* C21: each error kind of the parse and select routes has its own status:
\* POST /pdf-parse answers 404 for a document that is not found or not owned
\* and 409 for one that is PARSING or PARSED_SUCCESS, POST /pdf-select
\* answers 404 for a document not found and 409 for one not parsed, and
\* none of these refusals is answered with 500.
C21_DomainErrorsHaveOwnStatus ==
    [][/\ ParseRejected =>
            LET u == response'.user_id
                d == response'.pdf_id
                code == pdf_parse_status_code(response'.result) IN
            /\ ~Owned(u, d) => code = 404
            /\ (/\ Owned(u, d)
                /\ pdf_meta_collection[d].parse_status
                       \in {PARSING, PARSED_SUCCESS}) => code = 409
            /\ code # 500
       /\ SelectRejected =>
            LET u == response'.user_id
                d == response'.pdf_id
                code == pdf_select_status_code(response'.result) IN
            /\ ~Owned(u, d) => code = 404
            /\ (/\ Owned(u, d)
                /\ pdf_meta_collection[d].parse_status # PARSED_SUCCESS)
                   => code = 409
            /\ code # 500]_vars

\* C22: the deferred tasks run outside the request: when request_parsing
\* answers, the parse task of the document has not yet written
\* PARSED_SUCCESS or PARSED_FAILURE, and when submit_message answers, the
\* LLM task of the turn has not yet written a terminal status.
C22_AnsweredBeforeTaskOutcome ==
    /\ (response.op = "parse" /\ response.result = "OK") =>
           pdf_meta_collection[response.pdf_id].parse_status
               \notin {PARSED_SUCCESS, PARSED_FAILURE}
    /\ (response.op = "submit" /\ response.result = "OK"
            /\ response.deferred # <<>>) =>
           chat_logs[response.deferred[1]].llm_response_status \notin Terminal

\* the message each category of failure of the LLM task is to leave in the turn
CategoryMessage(cause) ==
    CASE cause = "missing_parsed_text" ->
             "Error: Could not retrieve parsed PDF content."
      [] cause = "transport_failure" ->
             "LLM Error: curl command failed. Exit code"
      [] cause = "non_2xx" ->
             "LLM Error: curl command failed. HTTP code"
      [] cause = "malformed_body" ->
             "LLM Error: Error decoding JSON response from Gemini API"
      [] cause = "api_error" ->
             "LLM Error: Gemini API Error"
      [] cause = "no_text_in_body" ->
             "LLM Error: Could not extract text from Gemini API response"
      [] cause = "subprocess_raises" ->
             "LLM Error: Error processing Gemini API call"
      [] OTHER ->
             "LLM Error: An unexpected error occurred during LLM task: store error"

\* C23: a run of the LLM task writes exactly one outcome to its turn: either
\* COMPLETED_SUCCESS with the generated text and a response timestamp, or a
\* failure whose stored content is the message of the category of the error
\* that occurred, every category having a message of its own.
C23_OneOutcomePerCategory ==
    [][\A p \in Procs :
          (procs[p].pc \in {"llm_update", "llm_handler"}
               /\ chat_logs' # chat_logs) =>
             LET id == procs[p].deferred[1]
                 row == chat_logs'[id] IN
             /\ \A i \in 1..Len(chat_logs) : i # id => chat_logs'[i] = chat_logs[i]
             /\ chat_logs[id].llm_response_status = PENDING
             /\ IF procs[p].cause = NoneStr
                THEN /\ row.llm_response_status = COMPLETED_SUCCESS
                     /\ row.llm_response_content = "generated_text"
                     /\ row.llm_response_timestamp
                ELSE /\ row.llm_response_status \in LLMResponseStatus \ {PENDING}
                     /\ row.llm_response_content =
                            CategoryMessage(procs[p].cause)]_vars

\* ---------------------------------------------------------------- C24
\* C24: COMPLETED_SUCCESS and FAILED_RETRIES_EXHAUSTED are terminal: once
\* the stored status of a turn is one of them, no step of any operation or
\* task changes that turn's status or response content
C24_TerminalIsFinal ==
    [][\A i \in 1..Len(chat_logs) :
          chat_logs[i].llm_response_status \in Terminal
          => /\ i \in 1..Len(chat_logs')
             /\ chat_logs'[i].llm_response_status = chat_logs[i].llm_response_status
             /\ chat_logs'[i].llm_response_content = chat_logs[i].llm_response_content]_vars

\* ---------------------------------------------------------------- C25
\* actual_defer_llm_task called with any turn id and any user id
defer_llm_task(p, chat_turn_id, user_id) ==
    /\ Free(p)
    /\ Continue(p, [IdleFrame EXCEPT !.pc = "llm_task", !.op = "llm_task",
                                     !.user_id = user_id,
                                     !.deferred = <<chat_turn_id, user_id>>])
    /\ UNCHANGED <<users_table, pdf_meta_collection, fs, parsed_texts_collection,
                   chat_logs, pdf_repo_impl>>

\* turn_id is not the id of a turn of user_id
NotATurnOf(turn_id, user_id) ==
    turn_id \in 1..Len(chat_logs) => chat_logs[turn_id].user_id # user_id

\* The chat service over the selections of the seeds, with tasks also
\* started for turn ids that are unknown or belong to another user, and with
\* readings of the history.
TaskNext ==
    \/ \E p \in Procs :
        \/ \E u \in Users : submit_user_message(p, u)
        \/ \E y \in BOOLEAN : create_chat_turn(p, y)
        \/ \E t \in 0..MaxTurns, u \in Users :
               NotATurnOf(t, u) /\ defer_llm_task(p, t, u)
        \/ \E r \in BOOLEAN : llm_task_get(p, r)
        \/ \E r \in BOOLEAN, o \in CurlOutcomes : llm_task_call(p, r, o)
        \/ \E o \in UpdateOutcomes : llm_task_update(p, o)
        \/ \E r \in BOOLEAN : llm_task_handler(p, r)
    \/ /\ response = NoResponse
       /\ \E u \in Users, page \in 1..MaxTurns, size \in 1..MaxTurns :
              get_user_chat_history(u, page, size)

TaskSpec == ChatInit /\ [][TaskNext]_vars

\* the slots running the LLM task of turn i of its owner
TasksOf(i) ==
    {p \in Procs : /\ procs[p].pc \in {"llm_update", "llm_handler"}
                   /\ procs[p].deferred = <<i, chat_logs[i].user_id>>}

\* C25: after a turn is created its stored status and response content are
\* changed only by a step of the LLM task deferred for that turn and its
\* owner: submissions, readings of the history, selections and the tasks of
\* other turns, of unknown turn ids and of other users leave them as they are
C25_OnlyItsTaskWritesATurn ==
    [][\A i \in 1..Len(chat_logs) :
          /\ i \in 1..Len(chat_logs')
          /\ \/ /\ chat_logs'[i].llm_response_status = chat_logs[i].llm_response_status
                /\ chat_logs'[i].llm_response_content = chat_logs[i].llm_response_content
             \/ \E p \in TasksOf(i) : procs'[p] # procs[p]]_vars

\* a task called with the turn id of another user has ended and the turn is
\* still PENDING
C25_ForeignTaskTurnedAway ==
    /\ response.op = "llm_task"
    /\ response.task_end = "turn_not_found"
    /\ response.deferred[1] \in 1..Len(chat_logs)
    /\ chat_logs[response.deferred[1]].user_id # response.deferred[2]
    /\ chat_logs[response.deferred[1]].llm_response_status = PENDING

\* ---------------------------------------------------------------- C26
\* the requests whose parse task for document d has been deferred and has
\* not ended
ParseTasksOf(d) ==
    {p \in Procs : /\ procs[p].op = "parse"
                   /\ procs[p].deferred # <<>>
                   /\ procs[p].deferred[1] = d}

\* C26: for each document at most one parse task is in flight at any time:
\* of two overlapping request_pdf_parsing calls for the same document at
\* most one passes the status guard and defers a parse task
C26_OneParseTaskPerDocument ==
    \A d \in 1..Len(pdf_meta_collection) : Cardinality(ParseTasksOf(d)) <= 1

\* ---------------------------------------------------------------- C27
\* C27: in every reachable state of the table no two users share the same
\* lower-cased e-mail, also when two registrations of the same e-mail
\* (letter case ignored) overlap between the look-up and the insert; and a
\* registration that returns a user has just inserted the one row of that
\* e-mail, so of two such registrations at most one returns a user
C27_EmailsStayUnique ==
    /\ \A i, j \in 1..Len(users_table) :
           lower(users_table[i].email) = lower(users_table[j].email) => i = j
    /\ (response.op = "register" /\ response.result = "OK")
       => /\ response.user.id = Len(users_table)
          /\ RowsOf(users_table, response) = {Len(users_table)}

\* the second of two overlapping registrations of one e-mail has been
\* refused at the insert
C27_SecondInsertRefused ==
    /\ response.op = "register"
    /\ response.result = "IntegrityError"
    /\ Cardinality(RowsOf(users_table, response)) = 1

\* ---------------------------------------------------------------- C28
\* C28: in every reachable state of the document store a document has a
\* parsed-text reference exactly when its status is PARSED_SUCCESS and a
\* parse error message exactly when its status is PARSED_FAILURE
C28_ReferenceAndErrorFollowStatus ==
    \A i \in 1..Len(pdf_meta_collection) :
        /\ pdf_meta_collection[i].parsed_text_id # 0
             <=> pdf_meta_collection[i].parse_status = PARSED_SUCCESS
        /\ pdf_meta_collection[i].parse_error_message # NoneStr
             <=> pdf_meta_collection[i].parse_status = PARSED_FAILURE

\* ---------------------------------------------------------------- C29
\* document pdf_id, stored under this filename, is selected by user_id
SelectedBy(pdf_id, filename, user_id) ==
    /\ pdf_id \in 1..Len(pdf_meta_collection)
    /\ pdf_meta_collection[pdf_id].user_id = user_id
    /\ pdf_meta_collection[pdf_id].is_selected_for_chat
    /\ pdf_meta_collection[pdf_id].original_filename = filename

\* the parsed text of the document recorded in the stored turn of task p
TextOfRecordedDocument(p) ==
    get_parsed_text_by_pdf_meta_id(parsed_texts_collection,
        chat_logs[procs[p].deferred[1]].pdf_document_id)

\* C29: the document id and filename of a turn are those of the document
\* that was selected when submit_user_message built the turn, they are
\* stored as they are and never change afterwards; and the LLM task of a
\* turn reads the parsed text of the recorded document, whatever the user
\* has selected since: it gives up for a missing text exactly when the
\* recorded document has none
C29_TurnKeepsItsDocument ==
    [][/\ \A i \in 1..Len(chat_logs) :
             /\ i \in 1..Len(chat_logs')
             /\ chat_logs'[i].pdf_document_id = chat_logs[i].pdf_document_id
             /\ chat_logs'[i].pdf_original_filename
                  = chat_logs[i].pdf_original_filename
       /\ \A p \in Procs :
             /\ (procs[p].pc = "idle" /\ procs'[p].pc = "create_chat_turn")
                => SelectedBy(procs'[p].turn.pdf_document_id,
                              procs'[p].turn.pdf_original_filename,
                              procs'[p].user_id)
             /\ (/\ procs[p].pc = "create_chat_turn"
                 /\ procs'[p].pc # "create_chat_turn"
                 /\ Len(chat_logs') = Len(chat_logs) + 1)
                => LET row == chat_logs'[Len(chat_logs')] IN
                   /\ row.pdf_document_id = procs[p].turn.pdf_document_id
                   /\ row.pdf_original_filename
                        = procs[p].turn.pdf_original_filename
             /\ (/\ procs[p].pc = "llm_text"
                 /\ procs'[p].pc # "llm_text"
                 /\ procs'[p].cause # "store_raised")
                => (procs'[p].cause = "missing_parsed_text"
                      <=> TextOfRecordedDocument(p) \in {NoneStr, ""})]_vars

\* the task of a turn about document 1 has read the text and got an answer
\* while document 2 is the one the user has selected
C29_AnsweredAfterSelectionMoved ==
    \E p \in Procs :
        /\ procs[p].pc = "llm_update"
        /\ procs[p].turn.pdf_document_id = 1
        /\ ~pdf_meta_collection[1].is_selected_for_chat
        /\ SelectedBy(2, pdf_meta_collection[2].original_filename,
                      procs[p].turn.user_id)

\* ---------------------------------------------------------------- C30
\* The stores of two users side by side: up to MaxShared documents and chat
\* turns, shared out between the users as in the paged listings.
MaxShared == 4
MaxSharedPage == 2

\* the same documents when user 1 has parsed none yet: the first document of
\* user 2 is the only one parsed and selected, and every turn is about it
SoloDocs(n, k) ==
    [i \in 1..n |->
        IF i = k
        THEN [MetaDoc(PDFDocument(i, 2, i, "a.pdf")) EXCEPT
                 !.upload_date = i, !.parse_status = PARSED_SUCCESS,
                 !.parsed_text_id = 1, !.is_selected_for_chat = TRUE]
        ELSE [MetaDoc(PDFDocument(i, PageOwner(k, i), i, "a.pdf")) EXCEPT
                 !.upload_date = i]]

SoloTexts(n, k) == << [pdf_metadata_id |-> k, text_content |-> "text"] >>

SoloLogs(n, k) ==
    [i \in 1..n |->
        [ChatLogDB([ChatMessageTurn(2, k, "a.pdf")
                    EXCEPT !.user_message_timestamp = i])
         EXCEPT !.llm_response_content = "answer",
                !.llm_response_status = COMPLETED_SUCCESS,
                !.llm_response_timestamp = TRUE]]

SharedInit ==
    /\ \E n \in 0..MaxShared, k \in PageOwners :
          \/ /\ pdf_meta_collection = PageDocs(n, k)
             /\ parsed_texts_collection = PageTexts(n, k)
             /\ chat_logs = PageLogs(n, k)
          \/ /\ k \in 2..n
             /\ pdf_meta_collection = SoloDocs(n, k)
             /\ parsed_texts_collection = SoloTexts(n, k)
             /\ chat_logs = SoloLogs(n, k)
    /\ fs = Len(pdf_meta_collection)
    /\ pdf_repo_impl = "MongoPDFRepository"
    /\ users_table = <<>>
    /\ procs = [p \in Procs |-> IdleFrame]
    /\ response = NoResponse

\* Parse requests with their tasks and selections of the two users, those of
\* different users overlapping, and the listings of either user.
SharedNext ==
    \/ \E p \in Procs :
        \/ \E u \in Users, d \in 0..MaxShared :
               NoRequestOf(u) /\ select_pdf_for_chat(p, u, d)
        \/ set_selected_deselect_others(p)
        \/ set_selected_select_target(p)
        \/ \E u \in Users, d \in 0..MaxShared :
               NoRequestOf(u) /\ request_pdf_parsing(p, u, d)
        \/ request_pdf_parsing_update(p)
        \/ \E r \in BOOLEAN, o \in ExtractOutcomes : parse_task_get(p, r, o)
        \/ \E r \in BOOLEAN : parse_task_save_text(p, r)
        \/ \E r \in BOOLEAN : parse_task_update(p, r)
        \/ \E r \in BOOLEAN : parse_task_handler(p, r)
    \/ /\ response = NoResponse
       /\ \E u \in Users, page \in 1..MaxSharedPage, size \in 1..MaxSharedPage :
              \/ pdf_list(u, page, size)
              \/ get_user_chat_history(u, page, size)

SharedSpec == SharedInit /\ [][SharedNext]_vars

\* the items of user u in a store
ItemsOf(store, u) == {i \in 1..Len(store) : store[i].user_id = u}

\* the listing r over this store shows items of its user only and counts
\* the items of its user only
OwnItemsOnly(r, store) ==
    /\ \A j \in 1..Len(r.data) : r.data[j] \in ItemsOf(store, r.user_id)
    /\ r.total_items = Cardinality(ItemsOf(store, r.user_id))

\* C30: operations of one user never read or change data owned by another
\* user: a listing of the documents or of the history of user u returns
\* items of u only and counts the items of u only, and a stored document
\* changes only in a step of a parse request, parse task or selection of
\* its owner, its selection included
C30_UsersAreIsolated ==
    [][/\ response'.op = "list_pdfs_for_user"
            => OwnItemsOnly(response', pdf_meta_collection)
       /\ response'.op = "get_chat_history"
            => OwnItemsOnly(response', chat_logs)
       /\ Len(pdf_meta_collection') = Len(pdf_meta_collection)
       /\ \A i \in 1..Len(pdf_meta_collection) :
             pdf_meta_collection'[i] # pdf_meta_collection[i]
             => \E p \in Procs :
                   /\ Active(p)
                   /\ procs'[p] # procs[p]
                   /\ procs[p].user_id = pdf_meta_collection[i].user_id]_vars

\* a parse request of user 1 has been answered after its task ran, while
\* user 2 has a selected document and turns of its own
C30_ParsedNextToAnotherUser ==
    /\ response.op = "parse"
    /\ response.user_id = 1
    /\ response.deferred # <<>>
    /\ pdf_meta_collection[response.deferred[1]].parse_status
         \in {PARSED_SUCCESS, PARSED_FAILURE}
    /\ \E i \in ItemsOf(pdf_meta_collection, 2) :
           pdf_meta_collection[i].is_selected_for_chat
    /\ ItemsOf(chat_logs, 2) # {}
====
